---- MODULE Spec2Model ----
(***************************************************************************)
(* ScholarSync (src/student_tracker.py): a Streamlit script over Firestore *)
(* collections.  Every browser session re-runs the script top to bottom on *)
(* each interaction; st.session_state is per session, the collections are  *)
(* shared by all sessions.  Text whose characters the code inspects        *)
(* (email, chat message, subjects, attendance) is a sequence of one-       *)
(* character strings; text the code only tests for emptiness or equality   *)
(* is a TLA+ string.                                                       *)
(***************************************************************************)
EXTENDS Integers, Sequences, FiniteSets, TLC

VARIABLES students, chat, assignments, study_groups,
          logged_in, current_user, pc, pending,
          user_data, chat_list, page, last, now

vars == <<students, chat, assignments, study_groups,
          logged_in, current_user, pc, pending,
          user_data, chat_list, page, last, now>>

\* ------------------------------------------------------------------ bounds
MaxClock == 4
MaxChat == 2
MaxAssignments == 1
MaxGroups == 1
MaxChatLong == 52

\* ------------------------------------------------------- program constants
ChatLimit == 50
None == "None"

Courses == <<"Computer Science", "Electronics", "Mechanical", "Civil",
             "Chemical", "Biotechnology", "Mathematics", "Physics">>

ProgressOptions == <<"Excellent", "Good", "Average", "Needs Improvement">>

\* ----------------------------------------------------------- text helpers
Whitespace == {" ", "\t", "\n", "\r", "\f"}

Digits == <<"0", "1", "2", "3", "4", "5", "6", "7", "8", "9">>

Letters == {"a", "b", "c", "d", "e", "f", "g", "h", "i", "j", "k", "l", "m",
            "n", "o", "p", "q", "r", "s", "t", "u", "v", "w", "x", "y", "z",
            "A", "B", "C", "D", "E", "F", "G", "H", "I", "J", "K", "L", "M",
            "N", "O", "P", "Q", "R", "S", "T", "U", "V", "W", "X", "Y", "Z"}

DigitChars == {Digits[i] : i \in 1..10}

LocalChars == Letters \cup DigitChars \cup {".", "_", "%", "+", "-"}

DomainChars == Letters \cup DigitChars \cup {".", "-"}

\* str.strip(): drop leading and trailing whitespace
RECURSIVE lstrip(_)
lstrip(t) ==
    IF t # <<>> /\ Head(t) \in Whitespace THEN lstrip(Tail(t)) ELSE t

RECURSIVE rstrip(_)
rstrip(t) ==
    IF t # <<>> /\ t[Len(t)] \in Whitespace
    THEN rstrip(SubSeq(t, 1, Len(t) - 1))
    ELSE t

strip(t) == rstrip(lstrip(t))

\* str.split(sep): the pieces between occurrences of sep, empty pieces kept
RECURSIVE split(_, _)
split(t, sep) ==
    IF \E i \in 1..Len(t) : t[i] = sep
    THEN LET i == CHOOSE k \in 1..Len(t) :
                      t[k] = sep /\ \A j \in 1..(k - 1) : t[j] # sep
         IN  <<SubSeq(t, 1, i - 1)>> \o split(SubSeq(t, i + 1, Len(t)), sep)
    ELSE <<t>>

\* sep.join(parts)
RECURSIVE join(_, _)
join(parts, sep) ==
    IF parts = <<>> THEN <<>>
    ELSE IF Len(parts) = 1 THEN parts[1]
    ELSE parts[1] \o <<sep>> \o join(Tail(parts), sep)

\* str(n) for a non-negative integer
RECURSIVE str(_)
str(n) ==
    IF n < 10 THEN <<Digits[n + 1]>>
    ELSE str(n \div 10) \o <<Digits[(n % 10) + 1]>>

DigitValue(c) == CHOOSE d \in 0..9 : Digits[d + 1] = c

RECURSIVE number(_)
number(t) ==
    IF t = <<>> THEN 0
    ELSE 10 * number(SubSeq(t, 1, Len(t) - 1)) + DigitValue(t[Len(t)])

\* ----------------------------------------------------------------- helpers
\* hashlib.sha256(password.encode()).hexdigest(), tabulated on the passwords
\* of the model
hash_password(password) ==
    CASE password = "pw1" ->
           "c592df4a86933b92addc9842402ddf198c638ea9be58916ee6e3734e1e3152f8"
      [] password = "pw2" ->
           "93915a0a4bf8f634cb1856494dd4304472ad46b9827f541f76b6761c49cc55b0"
      [] password = "" ->
           "e3b0c44298fc1c149afbf4c8996fb92427ae41e4649b934ca495991b7852b855"
      [] password =
           "c592df4a86933b92addc9842402ddf198c638ea9be58916ee6e3734e1e3152f8" ->
           "3031a75d90776233831448c68c4d8fea67dcebefb48b14b6a108d9720b1fee4c"

\* re.match(r'^[a-zA-Z0-9._%+-]+@[a-zA-Z0-9.-]+\.[a-zA-Z]{2,}$', email):
\* some "@" at i and some later "." at j split the text into a local part,
\* a domain and a final run of at least two letters; "$" also matches just
\* before one trailing newline
validate_email(email) ==
    LET ends == {Len(email)} \cup
                (IF email # <<>> /\ email[Len(email)] = "\n"
                 THEN {Len(email) - 1} ELSE {})
    IN  \E n \in ends : \E i \in 1..n : \E j \in 1..n :
          /\ email[i] = "@"
          /\ email[j] = "."
          /\ 1 < i
          /\ i + 1 < j
          /\ j + 2 <= n
          /\ \A k \in 1..(i - 1) : email[k] \in LocalChars
          /\ \A k \in (i + 1)..(j - 1) : email[k] \in DomainChars
          /\ \A k \in (j + 1)..n : email[k] \in Letters

\* float(attendance_str.replace('%', '')), 0.0 when float() raises
parse_attendance(attendance_str) ==
    LET t == strip(SelectSeq(attendance_str, LAMBDA c : c # "%"))
    IN  IF t # <<>> /\ \A k \in 1..Len(t) : t[k] \in DigitChars
        THEN number(t)
        ELSE 0

\* a collection keyed by document id, with no documents
NoDocs == [id \in {} |-> 0]

\* Firestore DocumentReference.set(): the document becomes exactly the given
\* fields, whether or not it existed
set(coll, id, data) ==
    [k \in DOMAIN coll \cup {id} |-> IF k = id THEN data ELSE coll[k]]

updateKeepStored(doc, fields) ==
    [k \in DOMAIN doc \cup DOMAIN fields |->
        IF k \in DOMAIN doc THEN doc[k] ELSE fields[k]]

\* Firestore DocumentReference.update(): the given fields replace or extend
\* the stored ones, every other stored field is kept
update(doc, fields) ==
    [k \in DOMAIN doc \cup DOMAIN fields |->
        IF k \in DOMAIN fields THEN fields[k] ELSE doc[k]]

\* ------------------------------------------------------------------- sets
Sessions == {"s1", "s2"}

Idle == [op |-> "idle"]

\* ------------------------------------------------------------ render pass
\* What a script run leaves in the browser, from the session state and the
\* collections it reads: the sidebar/main gate, the user document and the
\* chat query.
Exists(studs, roll_no) == roll_no \in DOMAIN studs

PageOf(li) == IF li THEN "app" ELSE "auth"

UserDataOf(li, cu, studs) ==
    IF li /\ Exists(studs, cu) THEN <<studs[cu]>> ELSE <<>>

\* order_by("timestamp", DESCENDING).limit(ChatLimit), then reversed()
RECURSIVE OrderByTimestampDesc(_)
OrderByTimestampDesc(docs) ==
    IF docs = {} THEN <<>>
    ELSE LET m == CHOOSE d \in docs :
                      \A e \in docs : e.timestamp <= d.timestamp
         IN  <<m>> \o OrderByTimestampDesc(docs \ {m})

Limit(q, n) == SubSeq(q, 1, IF Len(q) < n THEN Len(q) ELSE n)

reversed(q) == [i \in 1..Len(q) |-> q[Len(q) + 1 - i]]

ChatDisplayNoReverse(docs) == Limit(OrderByTimestampDesc(docs), ChatLimit)

ChatDisplay(docs) == reversed(Limit(OrderByTimestampDesc(docs), ChatLimit))

ChatListOf(li, cu, studs, docs) ==
    IF li /\ Exists(studs, cu) THEN ChatDisplay(docs) ELSE <<>>

Render(s, li, cu, studs, docs) ==
    /\ page' = [page EXCEPT ![s] = PageOf(li)]
    /\ user_data' = [user_data EXCEPT ![s] = UserDataOf(li, cu, studs)]
    /\ chat_list' = [chat_list EXCEPT ![s] = ChatListOf(li, cu, studs, docs)]

\* ------------------------------------------------------------------- init
Init ==
    /\ students = NoDocs
    /\ chat = {}
    /\ assignments = <<>>
    /\ study_groups = <<>>
    /\ logged_in = [s \in Sessions |-> FALSE]
    /\ current_user = [s \in Sessions |-> None]
    /\ pc = [s \in Sessions |-> "idle"]
    /\ pending = [s \in Sessions |-> Idle]
    /\ user_data = [s \in Sessions |-> <<>>]
    /\ chat_list = [s \in Sessions |-> <<>>]
    /\ page = [s \in Sessions |-> "auth"]
    /\ last = [s |-> "", op |-> "start", msg |-> ""]
    /\ now = 1

Ran(s, op, msg) == last' = [s |-> s, op |-> op, msg |-> msg]

\* --------------------------------------------------- sidebar: login_form
LoginResultPlain(roll_no, password, studs) ==
    IF roll_no # "" /\ password # ""
    THEN IF Exists(studs, roll_no)
         THEN IF studs[roll_no].password = password
              THEN "Login successful!"
              ELSE "Invalid credentials"
         ELSE "Student not found"
    ELSE ""

LoginResultNoLookup(roll_no, password, studs) ==
    IF roll_no # "" /\ password # ""
    THEN "Login successful!"
    ELSE ""

\* Lines 160-173: the message the submitted login form ends with, none when
\* a field is empty.
LoginResult(roll_no, password, studs) ==
    IF roll_no # "" /\ password # ""
    THEN IF Exists(studs, roll_no)
         THEN IF studs[roll_no].password = hash_password(password)
              THEN "Login successful!"
              ELSE "Invalid credentials"
         ELSE "Student not found"
    ELSE ""

\* One run of the script with the login form submitted; a successful login
\* ends in st.rerun(), which renders the main app.
Login(s, roll_no, password) ==
    /\ pc[s] = "idle"
    /\ ~logged_in[s]
    /\ LET msg == LoginResult(roll_no, password, students)
       IN  /\ Ran(s, "login", msg)
           /\ IF msg = "Login successful!"
              THEN /\ logged_in' = [logged_in EXCEPT ![s] = TRUE]
                   /\ current_user' = [current_user EXCEPT ![s] = roll_no]
                   /\ Render(s, TRUE, roll_no, students, chat)
              ELSE /\ UNCHANGED <<logged_in, current_user>>
                   /\ Render(s, FALSE, current_user[s], students, chat)
    /\ UNCHANGED <<students, chat, assignments, study_groups, pc, pending, now>>

\* ------------------------------------------------ sidebar: register_form
NewStudentPlain(f, t) ==
    [name |-> f.name, email |-> f.email, phone |-> f.phone,
     course |-> f.course, semester |-> f.semester, year |-> f.year,
     password |-> f.password,
     registration_date |-> t,
     subjects |-> <<>>, marks |-> NoDocs,
     attendance |-> <<"0", "%">>,
     academic_progress |-> "New Student",
     profile_complete |-> FALSE]

\* The document register_form builds for a new student.
NewStudent(f, t) ==
    [name |-> f.name, email |-> f.email, phone |-> f.phone,
     course |-> f.course, semester |-> f.semester, year |-> f.year,
     password |-> hash_password(f.password),
     registration_date |-> t,
     subjects |-> <<>>, marks |-> NoDocs,
     attendance |-> <<"0", "%">>,
     academic_progress |-> "New Student",
     profile_complete |-> FALSE]

RegisterErrorNoConfirm(f, studs) ==
    IF f.roll_no = "" \/ f.password = "" \/ f.name = ""
       \/ f.email = <<>> \/ f.course = ""
    THEN "Please fill all required fields"
    ELSE IF ~validate_email(f.email)
    THEN "Invalid email format"
    ELSE IF Exists(studs, f.roll_no)
    THEN "Student with this roll number already exists"
    ELSE ""

RegisterErrorNoExists(f, studs) ==
    IF f.roll_no = "" \/ f.password = "" \/ f.name = ""
       \/ f.email = <<>> \/ f.course = ""
    THEN "Please fill all required fields"
    ELSE IF f.password # f.confirm_password
    THEN "Passwords don't match"
    ELSE IF ~validate_email(f.email)
    THEN "Invalid email format"
    ELSE ""

\* Lines 194-204: the error the submitted register form ends with, none
\* when the registration goes on to the write.
RegisterError(f, studs) ==
    IF f.roll_no = "" \/ f.password = "" \/ f.name = ""
       \/ f.email = <<>> \/ f.course = ""
    THEN "Please fill all required fields"
    ELSE IF f.password # f.confirm_password
    THEN "Passwords don't match"
    ELSE IF ~validate_email(f.email)
    THEN "Invalid email format"
    ELSE IF Exists(studs, f.roll_no)
    THEN "Student with this roll number already exists"
    ELSE ""

\* The run with the register form submitted, up to and including the read
\* of the student document; a passing submission has built student_data
\* and goes on to RegisterSet.
RegisterSubmit(s, f) ==
    /\ pc[s] = "idle"
    /\ ~logged_in[s]
    /\ LET msg == RegisterError(f, students)
       IN  /\ Ran(s, "register", msg)
           /\ IF msg = ""
              THEN /\ pc' = [pc EXCEPT ![s] = "register_set"]
                   /\ pending' = [pending EXCEPT ![s] =
                                    [op |-> "register", roll_no |-> f.roll_no,
                                     student_data |-> NewStudent(f, now)]]
                   /\ now' = now + 1
              ELSE UNCHANGED <<pc, pending, now>>
    /\ Render(s, FALSE, current_user[s], students, chat)
    /\ UNCHANGED <<students, chat, assignments, study_groups,
                   logged_in, current_user>>

\* students_ref.document(roll_no).set(student_data), then the success
\* message and the rest of the run.
RegisterSet(s) ==
    /\ pc[s] = "register_set"
    /\ students' = set(students, pending[s].roll_no, pending[s].student_data)
    /\ pc' = [pc EXCEPT ![s] = "idle"]
    /\ pending' = [pending EXCEPT ![s] = Idle]
    /\ Ran(s, "register_set", "Registration successful! Please login.")
    /\ Render(s, logged_in[s], current_user[s], students', chat)
    /\ UNCHANGED <<chat, assignments, study_groups, logged_in, current_user,
                   now>>

\* ------------------------------------------------------- sidebar: Logout
LogoutKeepUser(s) ==
    /\ pc[s] = "idle"
    /\ logged_in[s]
    /\ logged_in' = [logged_in EXCEPT ![s] = FALSE]
    /\ Ran(s, "logout", "")
    /\ Render(s, FALSE, current_user[s], students, chat)
    /\ UNCHANGED <<students, chat, assignments, study_groups, current_user,
                   pc, pending, now>>

\* Lines 227-230: the Logout button, then st.rerun().
Logout(s) ==
    /\ pc[s] = "idle"
    /\ logged_in[s]
    /\ logged_in' = [logged_in EXCEPT ![s] = FALSE]
    /\ current_user' = [current_user EXCEPT ![s] = None]
    /\ Ran(s, "logout", "")
    /\ Render(s, FALSE, None, students, chat)
    /\ UNCHANGED <<students, chat, assignments, study_groups, pc, pending, now>>

\* ------------------------------------------------------ main app: the gate
\* Lines 235-244: the main app runs only for a logged-in session whose user
\* document exists; Rendered(s) says the browser of s holds its forms.
Gate(s) == pc[s] = "idle" /\ logged_in[s] /\ Exists(students, current_user[s])

Rendered(s) == page[s] = "app" /\ user_data[s] # <<>>

Range(q) == {q[i] : i \in 1..Len(q)}

\* dict.get(key, default)
get(d, key, default) == IF key \in DOMAIN d THEN d[key] ELSE default

\* The value an input widget returns in the run that handles a submit.  The
\* widget has no key, so Streamlit identifies it by its label and default:
\* when the default of this run differs from the one the browser's copy was
\* rendered with, the widget is a new one and returns its default; otherwise
\* it returns what the browser holds, the user's edit or the default.
Widget(shown, default, edits, key) ==
    IF shown = default /\ key \in DOMAIN edits THEN edits[key] ELSE default

\* ------------------------------------------------- tab 2: profile_form
\* [s.strip() for s in subjects_input.split('\n') if s.strip()]
RECURSIVE StripAll(_)
StripAll(parts) ==
    IF parts = <<>> THEN <<>>
    ELSE IF strip(Head(parts)) # <<>>
         THEN <<strip(Head(parts))>> \o StripAll(Tail(parts))
         ELSE StripAll(Tail(parts))

SubjectsList(subjects_input) == StripAll(split(subjects_input, "\n"))

HasDuplicates(q) == \E i \in 1..Len(q) : \E j \in 1..Len(q) : i # j /\ q[i] = q[j]

\* The number_input of one subject: shown in the browser when the subject
\* was in the list of the previous render, with the mark of that render as
\* its default.
MarkInput(subject, d0, d, edits) ==
    LET default == get(d.marks, subject, 0)
    IN  IF /\ subject \in Range(SubjectsList(join(d0.subjects, "\n")))
           /\ get(d0.marks, subject, 0) = default
           /\ "marks" \in DOMAIN edits
           /\ subject \in DOMAIN edits.marks
        THEN edits.marks[subject]
        ELSE default

UpdatedDataKeepMarks(d0, d, edits, t) ==
    LET subjects_input == Widget(join(d0.subjects, "\n"),
                                 join(d.subjects, "\n"), edits,
                                 "subjects_input")
        subjects_list == SubjectsList(subjects_input)
    IN  [name |-> Widget(d0.name, d.name, edits, "name"),
         email |-> Widget(d0.email, d.email, edits, "email"),
         phone |-> Widget(d0.phone, d.phone, edits, "phone"),
         course |-> Widget(Courses[1], Courses[1], edits, "course"),
         semester |-> Widget(d0.semester, d.semester, edits, "semester"),
         subjects |-> subjects_list,
         marks |-> [subject \in Range(subjects_list) \cup DOMAIN d.marks |->
                      IF subject \in Range(subjects_list)
                      THEN MarkInput(subject, d0, d, edits)
                      ELSE d.marks[subject]],
         attendance |->
             str(Widget(parse_attendance(d0.attendance),
                        parse_attendance(d.attendance), edits,
                        "attendance_input")) \o <<"%">>,
         academic_progress |-> Widget(ProgressOptions[1], ProgressOptions[1],
                                      edits, "academic_progress"),
         profile_complete |-> TRUE,
         last_updated |-> t]

\* The updated_data dictionary of lines 350-362, from the rendered document
\* d0, the document d this run read and the user's edits.
UpdatedData(d0, d, edits, t) ==
    LET subjects_input == Widget(join(d0.subjects, "\n"),
                                 join(d.subjects, "\n"), edits,
                                 "subjects_input")
        subjects_list == SubjectsList(subjects_input)
    IN  [name |-> Widget(d0.name, d.name, edits, "name"),
         email |-> Widget(d0.email, d.email, edits, "email"),
         phone |-> Widget(d0.phone, d.phone, edits, "phone"),
         course |-> Widget(Courses[1], Courses[1], edits, "course"),
         semester |-> Widget(d0.semester, d.semester, edits, "semester"),
         subjects |-> subjects_list,
         marks |-> [subject \in Range(subjects_list) |->
                      MarkInput(subject, d0, d, edits)],
         attendance |->
             str(Widget(parse_attendance(d0.attendance),
                        parse_attendance(d.attendance), edits,
                        "attendance_input")) \o <<"%">>,
         academic_progress |-> Widget(ProgressOptions[1], ProgressOptions[1],
                                      edits, "academic_progress"),
         profile_complete |-> TRUE,
         last_updated |-> t]

\* The run with "Update Profile" submitted.  Two number inputs with the same
\* label and default stop the run with DuplicateWidgetID before the submit
\* button is reached.
UpdateProfile(s, edits) ==
    /\ Gate(s)
    /\ Rendered(s)
    /\ LET cu == current_user[s]
           data == UpdatedData(user_data[s][1], students[cu], edits, now)
       IN  IF HasDuplicates(data.subjects)
           THEN /\ Ran(s, "update_profile", "DuplicateWidgetID")
                /\ UNCHANGED <<students, now, page, user_data, chat_list>>
           ELSE /\ students' = [students EXCEPT ![cu] = update(@, data)]
                /\ now' = now + 1
                /\ Ran(s, "update_profile", "Profile updated successfully!")
                /\ Render(s, TRUE, cu, students', chat)
    /\ UNCHANGED <<chat, assignments, study_groups, logged_in, current_user,
                   pc, pending>>

\* ------------------------------------------------- tab 3: assignments
\* due_date.strftime("%Y-%m-%d") of a date <<year, month, day>>
Pad2(n) == IF n < 10 THEN <<"0">> \o str(n) ELSE str(n)

strftime(due_date) ==
    str(due_date[1]) \o <<"-">> \o Pad2(due_date[2]) \o <<"-">>
        \o Pad2(due_date[3])

\* st.selectbox("Subject", user_data.get('subjects', [])): the option at
\* the chosen index, the first option when the options changed since the
\* browser's copy was rendered; no option at all when the list is empty.
HasSubject(d) == d.subjects # <<>>

SubjectChoice(d0, d, choice) ==
    IF d0.subjects = d.subjects /\ choice \in 1..Len(d.subjects)
    THEN d.subjects[choice]
    ELSE d.subjects[1]

AddAssignmentByName(s, title, choice, description, due_date, priority) ==
    /\ Gate(s)
    /\ Rendered(s)
    /\ LET cu == current_user[s]
           d == students[cu]
       IN  IF title # "" /\ HasSubject(d)
           THEN /\ assignments' = Append(assignments,
                     [student_id |-> d.name, title |-> title,
                      subject |-> SubjectChoice(user_data[s][1], d, choice),
                      description |-> description,
                      due_date |-> strftime(due_date),
                      priority |-> priority,
                      status |-> "pending",
                      created_date |-> now])
                /\ now' = now + 1
                /\ Ran(s, "add_assignment", "Assignment added successfully!")
           ELSE /\ Ran(s, "add_assignment", "Please fill required fields")
                /\ UNCHANGED <<assignments, now>>
    /\ Render(s, TRUE, current_user[s], students, chat)
    /\ UNCHANGED <<students, chat, study_groups, logged_in, current_user,
                   pc, pending>>

AddAssignmentNoCheck(s, title, choice, description, due_date, priority) ==
    /\ Gate(s)
    /\ Rendered(s)
    /\ LET cu == current_user[s]
           d == students[cu]
       IN  IF HasSubject(d)
           THEN /\ assignments' = Append(assignments,
                     [student_id |-> cu, title |-> title,
                      subject |-> SubjectChoice(user_data[s][1], d, choice),
                      description |-> description,
                      due_date |-> strftime(due_date),
                      priority |-> priority,
                      status |-> "pending",
                      created_date |-> now])
                /\ now' = now + 1
                /\ Ran(s, "add_assignment", "Assignment added successfully!")
           ELSE /\ Ran(s, "add_assignment", "Please fill required fields")
                /\ UNCHANGED <<assignments, now>>
    /\ Render(s, TRUE, current_user[s], students, chat)
    /\ UNCHANGED <<students, chat, study_groups, logged_in, current_user,
                   pc, pending>>

\* The run with "Add Assignment" submitted.
AddAssignment(s, title, choice, description, due_date, priority) ==
    /\ Gate(s)
    /\ Rendered(s)
    /\ LET cu == current_user[s]
           d == students[cu]
       IN  IF title # "" /\ HasSubject(d)
           THEN /\ assignments' = Append(assignments,
                     [student_id |-> cu, title |-> title,
                      subject |-> SubjectChoice(user_data[s][1], d, choice),
                      description |-> description,
                      due_date |-> strftime(due_date),
                      priority |-> priority,
                      status |-> "pending",
                      created_date |-> now])
                /\ now' = now + 1
                /\ Ran(s, "add_assignment", "Assignment added successfully!")
           ELSE /\ Ran(s, "add_assignment", "Please fill required fields")
                /\ UNCHANGED <<assignments, now>>
    /\ Render(s, TRUE, current_user[s], students, chat)
    /\ UNCHANGED <<students, chat, study_groups, logged_in, current_user,
                   pc, pending>>

\* The run with the "Mark Complete" button of assignment id clicked, up to
\* the point where the update is built: the button is there only for an
\* assignment of the current user that the query of this run read as not
\* completed.
MarkComplete(s, id) ==
    /\ Gate(s)
    /\ Rendered(s)
    /\ id \in 1..Len(assignments)
    /\ assignments[id].student_id = current_user[s]
    /\ assignments[id].status # "completed"
    /\ pc' = [pc EXCEPT ![s] = "complete_update"]
    /\ pending' = [pending EXCEPT ![s] =
                     [op |-> "complete", id |-> id, completion_date |-> now]]
    /\ now' = now + 1
    /\ Ran(s, "mark_complete", "")
    /\ UNCHANGED <<students, chat, assignments, study_groups, logged_in,
                   current_user, user_data, chat_list, page>>

\* assignments_ref.document(id).update({'status': 'completed',
\* 'completion_date': ...}), then the message and st.rerun().
CompleteUpdate(s) ==
    /\ pc[s] = "complete_update"
    /\ assignments' = [assignments EXCEPT ![pending[s].id] =
                         update(@, [status |-> "completed",
                                    completion_date |->
                                        pending[s].completion_date])]
    /\ pc' = [pc EXCEPT ![s] = "idle"]
    /\ pending' = [pending EXCEPT ![s] = Idle]
    /\ Ran(s, "complete_update", "Assignment marked as completed!")
    /\ Render(s, logged_in[s], current_user[s], students, chat)
    /\ UNCHANGED <<students, chat, study_groups, logged_in, current_user, now>>

\* ------------------------------------------------------ tab 5: chat_form
SendableRaw(message) == message # <<>>

\* Line 589: the condition on the text, message.strip()
Sendable(message) == strip(message) # <<>>

ChatAddLatest(docs, doc) == {doc}

\* chat_ref.add(doc): one more document in the collection
ChatAdd(docs, doc) == docs \cup {doc}

ChatSendUngated(s, message) ==
    /\ pc[s] = "idle"
    /\ LET cu == current_user[s]
       IN  IF Sendable(message)
           THEN /\ chat' = ChatAdd(chat,
                     [user |-> cu, user_name |-> cu,
                      message |-> strip(message), timestamp |-> now])
                /\ now' = now + 1
           ELSE UNCHANGED <<chat, now>>
    /\ Ran(s, "chat_send", "")
    /\ Render(s, logged_in[s], current_user[s], students, chat')
    /\ UNCHANGED <<students, assignments, study_groups, logged_in,
                   current_user, pc, pending>>

\* The run with "Send" submitted; the timestamp is the server's.
ChatSend(s, message) ==
    /\ Gate(s)
    /\ Rendered(s)
    /\ LET cu == current_user[s]
       IN  IF Sendable(message)
           THEN /\ chat' = ChatAdd(chat,
                     [user |-> cu,
                      user_name |-> get(students[cu], "name", cu),
                      message |-> strip(message),
                      timestamp |-> now])
                /\ now' = now + 1
           ELSE UNCHANGED <<chat, now>>
    /\ Ran(s, "chat_send", "")
    /\ Render(s, TRUE, current_user[s], students, chat')
    /\ UNCHANGED <<students, assignments, study_groups, logged_in,
                   current_user, pc, pending>>

\* -------------------------------------------------- tab 6: study groups
\* The run with "Create Group" submitted.
CreateGroup(s, group_name, choice, description, max_members) ==
    /\ Gate(s)
    /\ Rendered(s)
    /\ LET cu == current_user[s]
           d == students[cu]
       IN  IF group_name # "" /\ HasSubject(d)
           THEN /\ study_groups' = Append(study_groups,
                     [name |-> group_name,
                      subject |-> SubjectChoice(user_data[s][1], d, choice),
                      description |-> description,
                      creator |-> cu,
                      members |-> <<cu>>,
                      max_members |-> max_members,
                      created_date |-> now])
                /\ now' = now + 1
                /\ Ran(s, "create_group", "Study group created successfully!")
           ELSE /\ Ran(s, "create_group", "Please fill required fields")
                /\ UNCHANGED <<study_groups, now>>
    /\ Render(s, TRUE, current_user[s], students, chat)
    /\ UNCHANGED <<students, chat, assignments, logged_in, current_user,
                   pc, pending>>

\* list.remove(x): the list without the first occurrence of x
remove(q, x) ==
    LET i == CHOOSE k \in 1..Len(q) : q[k] = x /\ \A j \in 1..(k - 1) : q[j] # x
    IN  SubSeq(q, 1, i - 1) \o SubSeq(q, i + 1, Len(q))

\* The run with "Join Group" of group id clicked, up to the point where the
\* streamed members list has the current user appended.
JoinGroup(s, id) ==
    /\ Gate(s)
    /\ Rendered(s)
    /\ id \in 1..Len(study_groups)
    /\ current_user[s] \notin Range(study_groups[id].members)
    /\ pc' = [pc EXCEPT ![s] = "join_update"]
    /\ pending' = [pending EXCEPT ![s] =
                     [op |-> "join", id |-> id,
                      members |-> Append(study_groups[id].members,
                                         current_user[s])]]
    /\ Ran(s, "join_group", "")
    /\ UNCHANGED <<students, chat, assignments, study_groups, logged_in,
                   current_user, user_data, chat_list, page, now>>

\* The run with "Leave Group" of group id clicked, up to the point where the
\* current user is removed from the streamed members list.
LeaveGroup(s, id) ==
    /\ Gate(s)
    /\ Rendered(s)
    /\ id \in 1..Len(study_groups)
    /\ current_user[s] \in Range(study_groups[id].members)
    /\ pc' = [pc EXCEPT ![s] = "leave_update"]
    /\ pending' = [pending EXCEPT ![s] =
                     [op |-> "leave", id |-> id,
                      members |-> remove(study_groups[id].members,
                                         current_user[s])]]
    /\ Ran(s, "leave_group", "")
    /\ UNCHANGED <<students, chat, assignments, study_groups, logged_in,
                   current_user, user_data, chat_list, page, now>>

\* study_groups_ref.document(id).update({'members': members}) of either
\* button, then the message and st.rerun().
MembersUpdate(s) ==
    /\ pc[s] \in {"join_update", "leave_update"}
    /\ study_groups' = [study_groups EXCEPT ![pending[s].id] =
                          update(@, [members |-> pending[s].members])]
    /\ pc' = [pc EXCEPT ![s] = "idle"]
    /\ pending' = [pending EXCEPT ![s] = Idle]
    /\ Ran(s, "members_update",
           IF pc[s] = "join_update" THEN "Joined group successfully!"
           ELSE "Left group successfully!")
    /\ Render(s, logged_in[s], current_user[s], students, chat)
    /\ UNCHANGED <<students, chat, assignments, logged_in, current_user, now>>

\* ------------------------------------------------------------ input sets
GoodEmail == <<"a", "@", "b", ".", "c", "o">>

BadEmails == {<<"a", "@", "b", ".", "c">>, <<"a", "b", ".", "c", "o">>,
              <<"@", "b", ".", "c", "o">>, <<"a", "@", "b", ".", "c", "0">>}

Form(r, p, c, n, e, co) ==
    [roll_no |-> r, password |-> p, confirm_password |-> c, name |-> n,
     email |-> e, phone |-> "", course |-> co, semester |-> 3, year |-> 2024]

Ann(r, p) == Form(r, p, p, "Ann", GoodEmail, Courses[2])

Maths == <<"m">>

Rolls == {"r1", "r2"}

Passwords == {"pw1", "pw2"}

LoginPasswords ==
    Passwords \cup
    {"", "c592df4a86933b92addc9842402ddf198c638ea9be58916ee6e3734e1e3152f8"}

\* ------------------------------------------- authentication on a new store
\* Login, registration and logout of two sessions, from the empty store.
AuthForms ==
    {Ann(r, p) : r \in Rolls, p \in Passwords}
    \cup {Form("r1", "pw1", "pw2", "Ann", GoodEmail, Courses[2]),
          Form("", "pw1", "pw1", "Ann", GoodEmail, Courses[2]),
          Form("r1", "", "", "Ann", GoodEmail, Courses[2]),
          Form("r1", "pw1", "pw1", "", GoodEmail, Courses[2]),
          Form("r1", "pw1", "pw1", "Ann", <<>>, Courses[2]),
          Form("r1", "pw1", "pw1", "Ann", GoodEmail, "")}
    \cup {Form("r1", "pw1", "pw1", "Ann", e, Courses[2]) : e \in BadEmails}

NextAuth ==
    \E s \in Sessions :
      \/ \E r \in Rolls \cup {""}, p \in LoginPasswords : Login(s, r, p)
      \/ now <= MaxClock /\ \E f \in AuthForms : RegisterSubmit(s, f)
      \/ RegisterSet(s)
      \/ Logout(s)

SpecAuth == Init /\ [][NextAuth]_vars

\* ------------------------------------------------ every operation together
\* The collections are Firestore's and outlive the script: the store here
\* already holds student r1, registered at time 1 and with the profile form
\* submitted once at time 2 (subject "m" entered, course chosen again), as
\* RegisterSet and UpdateProfile leave it.  No session is logged in.
Registered == NewStudent(Ann("r1", "pw1"), 1)

Profiled ==
    update(Registered,
           UpdatedData(Registered, Registered,
                       [subjects_input |-> Maths, course |-> Courses[2]], 2))

InitStore ==
    /\ students = set(NoDocs, "r1", Profiled)
    /\ chat = {}
    /\ assignments = <<>>
    /\ study_groups = <<>>
    /\ logged_in = [s \in Sessions |-> FALSE]
    /\ current_user = [s \in Sessions |-> None]
    /\ pc = [s \in Sessions |-> "idle"]
    /\ pending = [s \in Sessions |-> Idle]
    /\ user_data = [s \in Sessions |-> <<>>]
    /\ chat_list = [s \in Sessions |-> <<>>]
    /\ page = [s \in Sessions |-> "auth"]
    /\ last = [s |-> "", op |-> "start", msg |-> ""]
    /\ now = 3

Forms == {Ann(r, "pw1") : r \in Rolls}

Edits == {[attendance_input |-> 90], [subjects_input |-> <<>>],
          [marks |-> [subject \in {Maths} |-> 85]]}

Messages == {<<" ", "\t", "\n">>, <<" ", "h", "i", "\n">>}

Next ==
    \E s \in Sessions :
      \/ \E r \in Rolls, p \in Passwords : Login(s, r, p)
      \/ now <= MaxClock /\ \E f \in Forms : RegisterSubmit(s, f)
      \/ RegisterSet(s)
      \/ Logout(s)
      \/ now <= MaxClock /\ \E e \in Edits : UpdateProfile(s, e)
      \/ /\ now <= MaxClock
         /\ Len(assignments) < MaxAssignments
         /\ \E title \in {"", "hw"} :
              AddAssignment(s, title, 1, "", <<2026, 1, 5>>, "Low")
      \/ \E id \in 1..Len(assignments) : MarkComplete(s, id)
      \/ CompleteUpdate(s)
      \/ /\ now <= MaxClock
         /\ Cardinality(chat) < MaxChat
         /\ \E m \in Messages : ChatSend(s, m)
      \/ /\ now <= MaxClock
         /\ Len(study_groups) < MaxGroups
         /\ \E name \in {"", "grp"} : CreateGroup(s, name, 1, "", 5)
      \/ \E id \in 1..Len(study_groups) : JoinGroup(s, id)
      \/ \E id \in 1..Len(study_groups) : LeaveGroup(s, id)
      \/ MembersUpdate(s)

Spec == InitStore /\ [][Next]_vars

\* ------------------------------------------------------- a long chat room
\* Session s1 of student r1 sends messages until the chat holds more than
\* the view's limit, logging out and in on the way.
InitChat ==
    /\ students = set(NoDocs, "r1", Profiled)
    /\ chat = {}
    /\ assignments = <<>>
    /\ study_groups = <<>>
    /\ logged_in = [s \in Sessions |-> s = "s1"]
    /\ current_user = [s \in Sessions |-> IF s = "s1" THEN "r1" ELSE None]
    /\ pc = [s \in Sessions |-> "idle"]
    /\ pending = [s \in Sessions |-> Idle]
    /\ user_data = [s \in Sessions |-> IF s = "s1" THEN <<Profiled>> ELSE <<>>]
    /\ chat_list = [s \in Sessions |-> <<>>]
    /\ page = [s \in Sessions |-> IF s = "s1" THEN "app" ELSE "auth"]
    /\ last = [s |-> "s1", op |-> "login", msg |-> "Login successful!"]
    /\ now = 3

ChatTexts == {<<>>, <<" ">>, <<"\n", "\t", " ">>, <<"a", " ", "b">>,
              <<" ", "a", " ", "b">>, <<"a", " ", "b", "\n", " ">>,
              <<"\t", "a", " ", "b", "\r">>}

NextChat ==
    \/ /\ Cardinality(chat) < MaxChatLong
       /\ \E m \in ChatTexts : ChatSend("s1", m)
    \/ Logout("s1")
    \/ \E p \in Passwords : Login("s1", "r1", p)

SpecChat == InitChat /\ [][NextChat]_vars

\* ================================================================ claims
LoginRolls == Rolls \cup {""}

\* C1 as stated: a login with an existing roll number and a password whose
\* hash differs from the stored password shows "Invalid credentials" and
\* leaves logged_in False and current_user None.
C1_AsStated ==
    [][\A s \in Sessions, r \in LoginRolls, p \in LoginPasswords :
         (/\ Login(s, r, p)
          /\ Exists(students, r)
          /\ students[r].password # hash_password(p))
         => (/\ last'.msg = "Invalid credentials"
             /\ ~logged_in'[s]
             /\ current_user'[s] = None)]_vars

\* C1 amended: with an existing roll number and a non-empty password whose
\* hash differs from the stored password the login shows "Invalid
\* credentials"; with an empty password it shows nothing; in both cases the
\* session stays logged out.  A login logs the session in, as the submitted
\* roll number, only if that student exists and the stored password is the
\* hash of the supplied one.
C1_Login ==
    [][\A s \in Sessions, r \in LoginRolls, p \in LoginPasswords :
         Login(s, r, p) =>
           /\ (Exists(students, r) /\ students[r].password # hash_password(p))
              => (/\ last'.msg = (IF p = "" THEN "" ELSE "Invalid credentials")
                  /\ ~logged_in'[s]
                  /\ current_user'[s] = None)
           /\ logged_in'[s]
              => (/\ Exists(students, r)
                  /\ students[r].password = hash_password(p)
                  /\ current_user'[s] = r)]_vars

C1_Witness ==
    /\ last.op = "login"
    /\ last.msg = "Invalid credentials"
    /\ ~logged_in[last.s]
    /\ current_user[last.s] = None

\* The register form's fields pass lines 194-199.
PassesValidation(f) ==
    /\ f.roll_no # "" /\ f.password # "" /\ f.name # ""
    /\ f.email # <<>> /\ f.course # ""
    /\ f.password = f.confirm_password
    /\ validate_email(f.email)

ValidationErrors == {"Please fill all required fields",
                     "Passwords don't match", "Invalid email format"}

\* C2 as stated: whatever the fields of the form, registering a roll number
\* that has a document shows the "already exists" error and leaves the
\* document as it is.
C2_AsStated ==
    [][\A s \in Sessions, f \in AuthForms :
         (RegisterSubmit(s, f) /\ Exists(students, f.roll_no))
         => (/\ last'.msg = "Student with this roll number already exists"
             /\ students' = students)]_vars

\* C2 amended: registering a roll number that has a document writes nothing
\* and has no write pending, so the document keeps every field; the error
\* is "already exists" when the fields pass validation and the validation
\* error otherwise.
C2_Duplicate ==
    [][\A s \in Sessions, f \in AuthForms :
         (RegisterSubmit(s, f) /\ Exists(students, f.roll_no))
         => (/\ students' = students
             /\ pc'[s] = "idle"
             /\ pending'[s] = Idle
             /\ IF PassesValidation(f)
                THEN last'.msg = "Student with this roll number already exists"
                ELSE last'.msg \in ValidationErrors)]_vars

C2_Witness ==
    /\ last.op = "register"
    /\ last.msg = "Student with this roll number already exists"
    /\ \E r \in Rolls : Exists(students, r) /\ students[r].password =
           "93915a0a4bf8f634cb1856494dd4304472ad46b9827f541f76b6761c49cc55b0"

\* C3: a registration that passes builds a document whose password is the
\* SHA-256 digest of the supplied password, not the password; its write
\* stores that document under the roll number and leaves logged_in and
\* current_user of every session as they were, the registering session
\* logged out.
C3_Register ==
    [][\A s \in Sessions :
         /\ \A f \in AuthForms :
              (RegisterSubmit(s, f) /\ pc'[s] = "register_set")
              => (/\ pending'[s].roll_no = f.roll_no
                  /\ pending'[s].student_data.password =
                         hash_password(f.password)
                  /\ pending'[s].student_data.password # f.password
                  /\ logged_in' = logged_in
                  /\ current_user' = current_user)
         /\ RegisterSet(s)
              => (/\ Exists(students', pending[s].roll_no)
                  /\ students'[pending[s].roll_no] = pending[s].student_data
                  /\ last'.msg = "Registration successful! Please login."
                  /\ logged_in' = logged_in
                  /\ current_user' = current_user
                  /\ ~logged_in'[s]
                  /\ current_user'[s] = None)]_vars

C3_Witness ==
    /\ last.op = "register_set"
    /\ last.msg = "Registration successful! Please login."
    /\ \E r \in Rolls :
         /\ Exists(students, r)
         /\ students[r].password \in {hash_password(p) : p \in Passwords}
    /\ ~logged_in[last.s]

\* C4: a register submission that fails validation writes nothing and
\* leaves the session state alone: the collections, logged_in and
\* current_user are the same after it, and no write is pending.
C4_FailedValidation ==
    [][\A s \in Sessions, f \in AuthForms :
         (RegisterSubmit(s, f) /\ ~PassesValidation(f))
         => (/\ students' = students
             /\ chat' = chat
             /\ assignments' = assignments
             /\ study_groups' = study_groups
             /\ logged_in' = logged_in
             /\ current_user' = current_user
             /\ pc' = pc
             /\ pending' = pending
             /\ last'.msg \in ValidationErrors)]_vars

C4_Witness ==
    /\ last.op = "register"
    /\ last.msg \in ValidationErrors
    /\ DOMAIN students # {}
    /\ pc[last.s] = "idle"

\* C5 as stated: an Update Profile in which the user changed only the
\* attendance input leaves every other stored field of the record, the
\* update timestamp apart, and every other record as they were.
C5_AsStated ==
    [][\A s \in Sessions, a \in {85, 90} :
         (/\ UpdateProfile(s, [attendance_input |-> a])
          /\ last'.msg = "Profile updated successfully!")
         => LET cu == current_user[s]
            IN  /\ \A k \in DOMAIN students[cu] \ {"attendance", "last_updated"} :
                     students'[cu][k] = students[cu][k]
                /\ \A r \in DOMAIN students \ {cu} :
                     students'[r] = students[r]]_vars

\* The text is empty or all whitespace.
Blank(m) == \A k \in 1..Len(m) : m[k] \in Whitespace

\* t is m without its leading and trailing whitespace.
IsTrimOf(t, m) ==
    \E i \in 1..Len(m) : \E j \in i..Len(m) :
      /\ t = SubSeq(m, i, j)
      /\ m[i] \notin Whitespace
      /\ m[j] \notin Whitespace
      /\ \A k \in 1..(i - 1) : m[k] \in Whitespace
      /\ \A k \in (j + 1)..Len(m) : m[k] \in Whitespace

\* C6: a send whose text is empty or all whitespace leaves the chat
\* collection as it is; any other send adds exactly one document, whose
\* message is the text without leading and trailing whitespace.
C6_Send ==
    [][\A s \in Sessions, m \in ChatTexts :
         ChatSend(s, m) =>
           IF Blank(m)
           THEN chat' = chat
           ELSE \E d \in chat' :
                  /\ d \notin chat
                  /\ chat' = chat \cup {d}
                  /\ IsTrimOf(d.message, m)
                  /\ d.user = current_user[s]]_vars

C6_Witness ==
    /\ last.op = "chat_send"
    /\ chat = {}
    /\ logged_in[last.s]

\* The sequence holds the ChatLimit documents with the latest timestamps,
\* all of them when there are fewer, in ascending order of timestamp.
IsRecent(q, docs) ==
    /\ Len(q) = (IF Cardinality(docs) < ChatLimit
                 THEN Cardinality(docs) ELSE ChatLimit)
    /\ \A i \in 1..Len(q) : q[i] \in docs
    /\ \A i \in 1..Len(q) : \A j \in 1..Len(q) :
         i < j => q[i].timestamp < q[j].timestamp
    /\ \A d \in docs :
         (\A i \in 1..Len(q) : q[i] # d)
         => \A i \in 1..Len(q) : d.timestamp < q[i].timestamp

\* C7: the chat view a run of a logged-in session leaves shows exactly the
\* ChatLimit most recent messages of the collection, all of them when fewer
\* are stored, oldest first.
C7_Display ==
    [][\A s \in Sessions :
         (last'.s = s /\ logged_in'[s] /\ pc'[s] = "idle")
         => IsRecent(chat_list'[s], chat')]_vars

C7_Witness ==
    /\ Cardinality(chat) > ChatLimit
    /\ logged_in["s1"]
    /\ Len(chat_list["s1"]) = ChatLimit
    /\ \E d \in chat : d.timestamp < chat_list["s1"][1].timestamp

\* C8: no step removes or changes a chat document: every document of the
\* collection is in it, with the same fields, after the step.
C8_AppendOnly == [][chat \subseteq chat']_vars

C8_Witness ==
    /\ Cardinality(chat) >= 2
    /\ last.op = "logout"

\* C9: Logout leaves the session with logged_in False and current_user
\* None, changes no collection, and its rerun renders the login/register
\* view only.
C9_Logout ==
    [][\A s \in Sessions :
         Logout(s) =>
           /\ ~logged_in'[s]
           /\ current_user'[s] = None
           /\ students' = students
           /\ chat' = chat
           /\ assignments' = assignments
           /\ study_groups' = study_groups
           /\ page'[s] = "auth"
           /\ user_data'[s] = <<>>
           /\ chat_list'[s] = <<>>]_vars

C9_Witness ==
    /\ last.op = "logout"
    /\ ~logged_in[last.s]
    /\ current_user[last.s] = None
    /\ page[last.s] = "auth"
    /\ chat # {}

\* C10: a session that is not logged in is shown the login/register view
\* only; a run of it is a login or a registration, changes no chat
\* document, assignment or study group, and changes the students
\* collection only by the write of a registration.
C10_Gate ==
    [][\A s \in Sessions :
         /\ ~logged_in'[s] => (page'[s] = "auth" /\ user_data'[s] = <<>>)
         /\ (~logged_in[s] /\ last'.s = s)
            => (/\ last'.op \in {"login", "register", "register_set"}
                /\ chat' = chat
                /\ assignments' = assignments
                /\ study_groups' = study_groups
                /\ students' # students => last'.op = "register_set")]_vars

C10_Witness ==
    /\ last.op = "register_set"
    /\ ~logged_in[last.s]
    /\ page[last.s] = "auth"
    /\ chat # {}

\* C11 as stated: no step changes the stored password of a student that has
\* a document: the document stays and its password field keeps its value.
C11_AsStated ==
    [][\A r \in DOMAIN students :
         /\ Exists(students', r)
         /\ students'[r].password = students[r].password]_vars

\* C15 as stated: the write of a registration never lands on a roll number
\* that already has a document, so one roll number gets "Registration
\* successful" at most once and no document is overwritten.
C15_AsStated ==
    [][\A s \in Sessions :
         RegisterSet(s) => ~Exists(students, pending[s].roll_no)]_vars

\* C12: Update Profile never meets a conflict check.  Whatever another
\* session of the same student wrote since this session's form was
\* rendered, the submission ends with the success message, every field of
\* updated_data is stored with the value this run computed, the fields the
\* form does not write keep their stored values, and no other document
\* changes: the record holds the form-written values of the latest write.
C12_LastWriterWins ==
    [][\A s \in Sessions, e \in Edits :
         UpdateProfile(s, e) =>
           LET cu == current_user[s]
               data == UpdatedData(user_data[s][1], students[cu], e, now)
           IN  /\ last'.msg = "Profile updated successfully!"
               /\ DOMAIN students' = DOMAIN students
               /\ \A k \in DOMAIN data : students'[cu][k] = data[k]
               /\ \A k \in DOMAIN students[cu] \ DOMAIN data :
                    students'[cu][k] = students[cu][k]
               /\ \A r \in DOMAIN students \ {cu} :
                    students'[r] = students[r]]_vars

\* Two sessions of one student have both written: the form of one still
\* shows its own earlier write, the store holds the later write of the other.
C12_Witness ==
    \E s1 \in Sessions, s2 \in Sessions :
      /\ s1 # s2
      /\ logged_in[s1] /\ logged_in[s2]
      /\ current_user[s1] = current_user[s2]
      /\ last = [s |-> s2, op |-> "update_profile",
                 msg |-> "Profile updated successfully!"]
      /\ user_data[s1] # <<>>
      /\ "last_updated" \in DOMAIN user_data[s1][1]
      /\ user_data[s1][1].last_updated = 3
      /\ user_data[s1][1].marks = [subject \in {Maths} |-> 85]
      /\ students[current_user[s2]].last_updated = 4
      /\ students[current_user[s2]].subjects = <<>>
      /\ students[current_user[s2]].marks = NoDocs

\* C13: in every reachable state, every key of a stored student's marks
\* mapping is one of the subjects of that student's subjects list.
C13_MarksSubjects ==
    \A r \in DOMAIN students :
      DOMAIN students[r].marks \subseteq Range(students[r].subjects)

\* A profile update has removed the only subject of a student whose record
\* held a mark for it.
C13_Witness ==
    /\ last.op = "update_profile"
    /\ Profiled.marks = [subject \in {Maths} |-> 0]
    /\ students["r1"].subjects = <<>>
    /\ students["r1"].marks = NoDocs

\* Session s has logged_in True exactly when its current_user is not None,
\* and then current_user has a student document.
SessionConsistent(s) ==
    /\ logged_in[s] <=> current_user[s] # None
    /\ logged_in[s] => Exists(students, current_user[s])

\* C14: in every reachable state, for every session, logged_in is True
\* exactly when current_user is not None, and a logged-in session's
\* current_user is a roll number that has a student document; no step
\* removes a student document.
C14_Session ==
    /\ [](\A s \in Sessions : SessionConsistent(s))
    /\ [][DOMAIN students \subseteq DOMAIN students']_vars

\* A session is logged in as a student registered during the run, after
\* another session has logged out.
C14_Witness ==
    \E s \in Sessions :
      /\ logged_in[s]
      /\ current_user[s] = "r2"
      /\ Exists(students, "r2")
      /\ page[s] = "app"
      /\ user_data[s] = <<students["r2"]>>
      /\ last.op = "logout"
      /\ current_user[last.s] = None

\* C16 as stated: the write of Join Group by user u leaves u and every
\* member stored just before the write in the group's members; the write of
\* Leave Group leaves u out and every other member stored just before the
\* write in.
C16_AsStated ==
    [][\A s \in Sessions :
         MembersUpdate(s) =>
           LET u == current_user[s]
               before == Range(study_groups[pending[s].id].members)
               after == Range(study_groups'[pending[s].id].members)
           IN  IF pc[s] = "join_update"
               THEN u \in after /\ before \subseteq after
               ELSE u \notin after /\ before \ {u} \subseteq after]_vars

\* C17: a run of a logged-in session changes no student document but the
\* one of its current_user and removes none; every assignment it adds, and
\* every assignment it changes, has student_id equal to its current_user,
\* and it removes none; every chat document it adds has user equal to its
\* current_user.
C17_OwnData ==
    [][\A s \in Sessions :
         (logged_in[s] /\ last'.s = s) =>
           LET cu == current_user[s]
           IN  /\ DOMAIN students' = DOMAIN students
               /\ \A r \in DOMAIN students \ {cu} : students'[r] = students[r]
               /\ Len(assignments') >= Len(assignments)
               /\ \A i \in 1..Len(assignments') :
                    (i > Len(assignments) \/ assignments'[i] # assignments[i])
                    => assignments'[i].student_id = cu
               /\ \A d \in chat' \ chat : d.user = cu]_vars

\* The session of one student has added an assignment and has it marked
\* complete while another student's record and session exist.
C17_Witness ==
    /\ last.op = "complete_update"
    /\ current_user[last.s] = "r1"
    /\ Exists(students, "r2")
    /\ \E i \in 1..Len(assignments) :
         /\ assignments[i].student_id = "r1"
         /\ assignments[i].status = "completed"

\* C18: no step removes an assignment; a new assignment has status
\* "pending", a non-empty title and a non-empty subject; the status of a
\* stored assignment changes only to "completed", and never once it is
\* "completed"; the Mark Complete button is acted on only in a run that
\* read the assignment as not completed, and its write leaves the status
\* "completed".
C18_StatusForward ==
    [][/\ Len(assignments') >= Len(assignments)
       /\ \A i \in 1..Len(assignments) :
            /\ assignments[i].status = "completed"
               => assignments'[i].status = "completed"
            /\ assignments'[i].status \in {assignments[i].status, "completed"}
       /\ \A i \in (Len(assignments) + 1)..Len(assignments') :
            /\ assignments'[i].status = "pending"
            /\ assignments'[i].title # ""
            /\ assignments'[i].subject # <<>>
       /\ \A s \in Sessions :
            /\ \A id \in 1..Len(assignments) :
                 MarkComplete(s, id) => assignments[id].status = "pending"
            /\ CompleteUpdate(s)
               => assignments'[pending[s].id].status = "completed"]_vars

\* Two sessions of one student both clicked Mark Complete on the same
\* pending assignment, at times 4 and 5; both writes are applied, the one
\* built first last, on the assignment the other had already completed.
C18_Witness ==
    /\ last.op = "complete_update"
    /\ now = 6
    /\ \A s \in Sessions : pc[s] = "idle"
    /\ Len(assignments) = 1
    /\ assignments[1].status = "completed"
    /\ assignments[1].created_date = 3
    /\ assignments[1].completion_date = 4

====
